---- MODULE Spec2Model ----
(***************************************************************************)
(* Model of gcputil's federated token source (credentials.go) and its      *)
(* token exchange client (the second file of credentials.go, from line     *)
(* 394 on).                                                                *)
(*                                                                         *)
(* Time is counted in whole seconds.  ZeroTime stands for Go's zero        *)
(* time.Time; every other instant of the model lies after it.              *)
(***************************************************************************)
EXTENDS Integers, Sequences, FiniteSets, TLC

(***************************************************************************)
(* Bounds of the model.                                                    *)
(***************************************************************************)
\* Number of goroutines that call into the package.
NumProcs == 2
\* The clock does not advance beyond MaxTime.
MaxTime == 40
\* The clock advances in steps of TickSeconds seconds.
TickSeconds == 10

Procs == 1..NumProcs
NoProc == 0
StartTime == TickSeconds

(***************************************************************************)
(* Constants of the program.                                               *)
(***************************************************************************)
iamCredentialsAPIsEndpoint == "https://iamcredentials.googleapis.com"
stsTokenAPIEndpoint == "https://sts.googleapis.com/v1/token"
defaultJWTSubjectTokenType == "urn:ietf:params:oauth:token-type:jwt"
defaultTokenAuthScopes == <<"https://www.googleapis.com/auth/cloud-platform">>

\* golang.org/x/oauth2 (token.go): expiryDelta = 10 * time.Second, the margin
\* by which reuseTokenSource treats a token as expired early.
expiryDelta == 10
\* The zero time.Time, as tested by Time.IsZero.
ZeroTime == 0

(***************************************************************************)
(* Values.                                                                 *)
(***************************************************************************)
\* error values; kind names the error, api the "sts/google" or
\* "iamCredentials/google" prefix of its message, status and body the
\* "status code %d: %s" arguments.
Err(kind, api, status, body) ==
    [kind |-> kind, api |-> api, status |-> status, body |-> body]
\* a nil error
NoErr == Err("nil", "", 0, "")
errTokenRequestNil == Err("errTokenRequestNil", "", 0, "")

\* *oauth2.Token; nil is the nil pointer.
Token(access, tokenType, refresh, expiry) ==
    [nil |-> FALSE, AccessToken |-> access, TokenType |-> tokenType,
     RefreshToken |-> refresh, Expiry |-> expiry]
NilToken ==
    [nil |-> TRUE, AccessToken |-> "", TokenType |-> "",
     RefreshToken |-> "", Expiry |-> ZeroTime]

\* The configuration the token source refers to.
config ==
    [Audience |-> "test-audience",
     ServiceAccountEmail |-> "sa@project.iam.gserviceaccount.com",
     TTL |-> 3600]

(***************************************************************************)
(* The outside world: what the fetcher callback and the two HTTP           *)
(* endpoints may answer.                                                   *)
(***************************************************************************)
\* A result of config.TokenFetcher(ctx, config).
FetcherResults ==
    { [token |-> "test-id-token", failed |-> FALSE],
      [token |-> "", failed |-> TRUE] }

\* Outcomes of client.Do followed by io.ReadAll(resp.Body).
Transport == [kind |-> "transport", status |-> 0, body |-> ""]
ReadFail(status) == [kind |-> "readfail", status |-> status, body |-> ""]
Response(status, body) == [kind |-> "response", status |-> status, body |-> body]
NoOutcome == [kind |-> "none", status |-> 0, body |-> ""]
\* client.Do or the read of the body ended because the request's context
\* was cancelled or its deadline passed.
Canceled == [kind |-> "canceled", status |-> 0, body |-> ""]

\* Response bodies.
bodyHTML == "<html>502 Bad Gateway</html>"
bodyErrorJSON == "{\"error\":\"invalid_grant\"}"
\* stsResponseBody of token_exchange_test.go
bodySTSGood ==
    "{\"access_token\":\"Sample.Access.Token\",\"issued_token_type\":\"urn:ietf:params:oauth:token-type:access_token\",\"token_type\":\"Bearer\",\"expires_in\":3600,\"scope\":\"https://www.googleapis.com/auth/cloud-platform\"}"
bodySTSZero == "{\"access_token\":\"sts-0\",\"expires_in\":0}"
bodySTSNegative == "{\"access_token\":\"sts-neg\",\"expires_in\":-1}"
bodyIAMLate == "{\"accessToken\":\"sa-1\",\"expireTime\":\"0001-01-01T00:00:40Z\"}"
bodyIAMLateOffset ==
    "{\"accessToken\":\"sa-1\",\"expireTime\":\"0001-01-01T01:00:40+01:00\"}"
bodyIAMEarly == "{\"accessToken\":\"sa-2\",\"expireTime\":\"0001-01-01T00:00:20Z\"}"
bodyIAMZero == "{\"accessToken\":\"sa-3\",\"expireTime\":\"0001-01-01T00:00:00Z\"}"
bodyIAMGoString ==
    "{\"accessToken\":\"sa-4\",\"expireTime\":\"0001-01-01 00:00:40 +0000 UTC\"}"
bodyIAMNoToken == "{\"expireTime\":\"0001-01-01T00:00:40Z\"}"
bodyIAMBadType == "{\"accessToken\":17}"

(***************************************************************************)
(* Decoding, as encoding/json and time.Parse do it on the bodies above.    *)
(***************************************************************************)
STSTokenResponse(access, issued, tokenType, expiresIn, scope, refresh) ==
    [AccessToken |-> access, IssuedTokenType |-> issued, TokenType |-> tokenType,
     ExpiresIn |-> expiresIn, Scope |-> scope, RefreshToken |-> refresh]
IAMTokenResponse(access, expireTime) ==
    [AccessToken |-> access, ExpireTime |-> expireTime]
NilSTSResponse == STSTokenResponse("", "", "", 0, "", "")
NilIAMResponse == IAMTokenResponse("", "")

Decoded(v) == [ok |-> TRUE, v |-> v]

\* json.Unmarshal(body, &stsResp) with stsResp an STSTokenResponse: absent
\* keys leave the zero value, unknown keys are ignored, a body that is not
\* JSON or holds a value of the wrong type is an error.
UnmarshalSTS(body) ==
    CASE body = bodySTSGood ->
           Decoded(STSTokenResponse(
                       "Sample.Access.Token",
                       "urn:ietf:params:oauth:token-type:access_token",
                       "Bearer", 3600,
                       "https://www.googleapis.com/auth/cloud-platform", ""))
      [] body = bodySTSZero ->
           Decoded(STSTokenResponse("sts-0", "", "", 0, "", ""))
      [] body = bodySTSNegative ->
           Decoded(STSTokenResponse("sts-neg", "", "", -1, "", ""))
      [] body = bodyErrorJSON -> Decoded(NilSTSResponse)
      [] OTHER -> [ok |-> FALSE, v |-> NilSTSResponse]

\* json.Unmarshal(body, &stsResp) with stsResp an IAMTokenResponse.
UnmarshalIAM(body) ==
    CASE body = bodyIAMLate ->
           Decoded(IAMTokenResponse("sa-1", "0001-01-01T00:00:40Z"))
      [] body = bodyIAMLateOffset ->
           Decoded(IAMTokenResponse("sa-1", "0001-01-01T01:00:40+01:00"))
      [] body = bodyIAMEarly ->
           Decoded(IAMTokenResponse("sa-2", "0001-01-01T00:00:20Z"))
      [] body = bodyIAMZero ->
           Decoded(IAMTokenResponse("sa-3", "0001-01-01T00:00:00Z"))
      [] body = bodyIAMGoString ->
           Decoded(IAMTokenResponse("sa-4", "0001-01-01 00:00:40 +0000 UTC"))
      [] body = bodyIAMNoToken ->
           Decoded(IAMTokenResponse("", "0001-01-01T00:00:40Z"))
      [] body = bodyErrorJSON -> Decoded(NilIAMResponse)
      [] OTHER -> [ok |-> FALSE, v |-> NilIAMResponse]

\* time.Parse(time.RFC3339, s): the instant, in seconds after the zero time.
ParseRFC3339(s) ==
    CASE s = "0001-01-01T00:00:00Z" -> [ok |-> TRUE, t |-> ZeroTime]
      [] s = "0001-01-01T00:00:20Z" -> [ok |-> TRUE, t |-> 20]
      [] s = "0001-01-01T00:00:40Z" -> [ok |-> TRUE, t |-> 40]
      [] s = "0001-01-01T01:00:40+01:00" -> [ok |-> TRUE, t |-> 40]
      [] OTHER -> [ok |-> FALSE, t |-> ZeroTime]

IsZero(t) == t = ZeroTime

(***************************************************************************)
(* Token exchange client.                                                  *)
(***************************************************************************)
\* The error both functions make of a failed client.Do: the cause is part
\* of the message ("...: %v", err), a context error when the request's
\* context ended the call.
DoError(o, api) ==
    Err(IF o.kind = "canceled" THEN "CanceledError" ELSE "TransportError",
        api, 0, "")

\* A makeSTSRequest that decodes the body before it looks at the status.
makeSTSRequestResultDecodeFirst(o) ==
    IF o.kind \in {"transport", "canceled"}
    THEN [resp |-> NilSTSResponse, isNil |-> TRUE,
          err |-> DoError(o, "sts/google")]
    ELSE IF o.kind = "readfail"
    THEN [resp |-> NilSTSResponse, isNil |-> TRUE,
          err |-> Err("ReadError", "", 0, "")]
    ELSE IF ~UnmarshalSTS(o.body).ok
    THEN [resp |-> NilSTSResponse, isNil |-> TRUE,
          err |-> Err("DecodeError", "sts/google", 0, "")]
    ELSE IF o.status < 200 \/ o.status > 299
    THEN [resp |-> NilSTSResponse, isNil |-> TRUE,
          err |-> Err("ExchangeError", "sts/google", o.status, o.body)]
    ELSE [resp |-> UnmarshalSTS(o.body).v, isNil |-> FALSE, err |-> NoErr]

\* The tail of makeSTSRequest, from client.Do on: o is what the call and the
\* read of the body gave.
makeSTSRequestResult(o) ==
    IF o.kind \in {"transport", "canceled"}
    THEN [resp |-> NilSTSResponse, isNil |-> TRUE,
          err |-> DoError(o, "sts/google")]
    ELSE IF o.kind = "readfail"
    THEN [resp |-> NilSTSResponse, isNil |-> TRUE,
          err |-> Err("ReadError", "", 0, "")]
    ELSE IF o.status < 200 \/ o.status > 299
    THEN [resp |-> NilSTSResponse, isNil |-> TRUE,
          err |-> Err("ExchangeError", "sts/google", o.status, o.body)]
    ELSE IF ~UnmarshalSTS(o.body).ok
    THEN [resp |-> NilSTSResponse, isNil |-> TRUE,
          err |-> Err("DecodeError", "sts/google", 0, "")]
    ELSE [resp |-> UnmarshalSTS(o.body).v, isNil |-> FALSE, err |-> NoErr]

\* A makeIAMRequest that takes only the statuses from 400 on as failures.
makeIAMRequestResultFrom400(o) ==
    IF o.kind \in {"transport", "canceled"}
    THEN [resp |-> NilIAMResponse, isNil |-> TRUE,
          err |-> DoError(o, "iamCredentials/google")]
    ELSE IF o.kind = "readfail"
    THEN [resp |-> NilIAMResponse, isNil |-> TRUE,
          err |-> Err("ReadError", "", 0, "")]
    ELSE IF o.status < 200 \/ o.status > 399
    THEN [resp |-> NilIAMResponse, isNil |-> TRUE,
          err |-> Err("ExchangeError", "iamCredentials/google", o.status, o.body)]
    ELSE IF ~UnmarshalIAM(o.body).ok
    THEN [resp |-> NilIAMResponse, isNil |-> TRUE,
          err |-> Err("DecodeError", "iamCredentials/google", 0, "")]
    ELSE [resp |-> UnmarshalIAM(o.body).v, isNil |-> FALSE, err |-> NoErr]

\* The tail of makeIAMRequest, from c.Do on.
makeIAMRequestResult(o) ==
    IF o.kind \in {"transport", "canceled"}
    THEN [resp |-> NilIAMResponse, isNil |-> TRUE,
          err |-> DoError(o, "iamCredentials/google")]
    ELSE IF o.kind = "readfail"
    THEN [resp |-> NilIAMResponse, isNil |-> TRUE,
          err |-> Err("ReadError", "", 0, "")]
    ELSE IF o.status < 200 \/ o.status > 299
    THEN [resp |-> NilIAMResponse, isNil |-> TRUE,
          err |-> Err("ExchangeError", "iamCredentials/google", o.status, o.body)]
    ELSE IF ~UnmarshalIAM(o.body).ok
    THEN [resp |-> NilIAMResponse, isNil |-> TRUE,
          err |-> Err("DecodeError", "iamCredentials/google", 0, "")]
    ELSE [resp |-> UnmarshalIAM(o.body).v, isNil |-> FALSE, err |-> NoErr]

(***************************************************************************)
(* Federated token source: the handling of the two exchange results.       *)
(***************************************************************************)
\* An obtainSTSToken without the ExpiresIn < 0 check.
obtainSTSTokenResultNoCheck(r, nw) ==
    IF r.err # NoErr
    THEN [tok |-> NilToken, err |-> r.err]
    ELSE [tok |-> Token(r.resp.AccessToken, r.resp.TokenType,
                        r.resp.RefreshToken, nw + r.resp.ExpiresIn),
          err |-> NoErr]

\* An obtainSTSToken that also rejects an ExpiresIn of 0.
obtainSTSTokenResultRejectZero(r, nw) ==
    IF r.err # NoErr
    THEN [tok |-> NilToken, err |-> r.err]
    ELSE IF r.resp.ExpiresIn <= 0
    THEN [tok |-> NilToken,
          err |-> Err("InvalidExpiryError", "sts/google", 0, "")]
    ELSE [tok |-> Token(r.resp.AccessToken, r.resp.TokenType,
                        r.resp.RefreshToken, nw + r.resp.ExpiresIn),
          err |-> NoErr]

\* obtainSTSToken after ExchangeSTSToken returned r at time nw.
obtainSTSTokenResult(r, nw) ==
    IF r.err # NoErr
    THEN [tok |-> NilToken, err |-> r.err]
    ELSE IF r.resp.ExpiresIn < 0
    THEN [tok |-> NilToken,
          err |-> Err("InvalidExpiryError", "sts/google", 0, "")]
    ELSE [tok |-> Token(r.resp.AccessToken, r.resp.TokenType,
                        r.resp.RefreshToken, nw + r.resp.ExpiresIn),
          err |-> NoErr]

\* An obtainSACredential that drops the error of time.Parse.
obtainSACredentialResultIgnoreParseErr(r) ==
    IF r.err # NoErr
    THEN [tok |-> NilToken, err |-> r.err]
    ELSE IF IsZero(ParseRFC3339(r.resp.ExpireTime).t)
    THEN [tok |-> NilToken,
          err |-> Err("InvalidExpiryError", "iamCredentials/google", 0, "")]
    ELSE [tok |-> Token(r.resp.AccessToken, "", "",
                        ParseRFC3339(r.resp.ExpireTime).t),
          err |-> NoErr]

\* obtainSACredential after ExchangeServiceAccountToken returned r.
obtainSACredentialResult(r) ==
    IF r.err # NoErr
    THEN [tok |-> NilToken, err |-> r.err]
    ELSE IF ~ParseRFC3339(r.resp.ExpireTime).ok
    THEN [tok |-> NilToken,
          err |-> Err("TimeParseError", "iamCredentials/google", 0, "")]
    ELSE IF IsZero(ParseRFC3339(r.resp.ExpireTime).t)
    THEN [tok |-> NilToken,
          err |-> Err("InvalidExpiryError", "iamCredentials/google", 0, "")]
    ELSE [tok |-> Token(r.resp.AccessToken, "", "",
                        ParseRFC3339(r.resp.ExpireTime).t),
          err |-> NoErr]

(***************************************************************************)
(* Requests.                                                               *)
(***************************************************************************)
STSTokenExchangeRequest(grant, audience, scope, requested, subject, subjectType) ==
    [nil |-> FALSE, GrantType |-> grant, Audience |-> audience, Scope |-> scope,
     RequestedTokenType |-> requested, SubjectToken |-> subject,
     SubjectTokenType |-> subjectType]
IAMTokenExchangeRequest(scope, lifetime, stsAccessToken) ==
    [nil |-> FALSE, Scope |-> scope, Lifetime |-> lifetime,
     STSAccessToken |-> stsAccessToken]
\* a nil *STSTokenExchangeRequest or *IAMTokenExchangeRequest
NilRequest == [nil |-> TRUE]

\* An HTTP request on the wire; NoRequest: none.
NoRequest == [method |-> "none"]

RECURSIVE Join(_, _)
\* strings.Join(elems, sep)
Join(elems, sep) ==
    IF elems = <<>> THEN ""
    ELSE IF Len(elems) = 1 THEN elems[1]
    ELSE elems[1] \o sep \o Join(Tail(elems), sep)

\* A makeSTSRequest that takes grant_type and requested_token_type from the
\* request.
makeSTSRequestFromFields(endpoint, r) ==
    [method |-> "POST", endpoint |-> endpoint,
     contentType |-> "application/x-www-form-urlencoded",
     authorization |-> "",
     form |-> [audience |-> r.Audience,
               grant_type |-> r.GrantType,
               requested_token_type |-> r.RequestedTokenType,
               subject_token_type |-> r.SubjectTokenType,
               subject_token |-> r.SubjectToken,
               scope |-> Join(r.Scope, " ")]]

\* The head of makeSTSRequest, up to client.Do: the request it sends.  form
\* is the url.Values that data.Encode() writes as the body.
makeSTSRequest(endpoint, r) ==
    [method |-> "POST", endpoint |-> endpoint,
     contentType |-> "application/x-www-form-urlencoded",
     authorization |-> "",
     form |-> [audience |-> r.Audience,
               grant_type |-> "urn:ietf:params:oauth:grant-type:token-exchange",
               requested_token_type |-> "urn:ietf:params:oauth:token-type:access_token",
               subject_token_type |-> r.SubjectTokenType,
               subject_token |-> r.SubjectToken,
               scope |-> Join(r.Scope, " ")]]

\* A makeIAMRequest that always writes the lifetime key.
makeIAMRequestAlwaysLifetime(endpoint, r) ==
    [method |-> "POST", endpoint |-> endpoint,
     contentType |-> "application/json",
     authorization |-> "Bearer " \o r.STSAccessToken,
     json |-> [scope |-> r.Scope, lifetime |-> r.Lifetime]]

\* The head of makeIAMRequest, up to c.Do: the request it sends.  json is
\* the map that json.Marshal writes as the body.
makeIAMRequest(endpoint, r) ==
    [method |-> "POST", endpoint |-> endpoint,
     contentType |-> "application/json",
     authorization |-> "Bearer " \o r.STSAccessToken,
     json |-> IF r.Lifetime # ""
              THEN [scope |-> r.Scope, lifetime |-> r.Lifetime]
              ELSE [scope |-> r.Scope]]

\* Whether http.NewRequest("POST", endpoint, body) fails: it does on an
\* endpoint that url.Parse rejects.
badEndpoint == ":not-a-url"
NewRequestFails(endpoint) == endpoint = badEndpoint

\* An ExchangeSTSToken that sends a nil request as an empty one.
ExchangeSTSTokenNilAsEmpty(endpoint, request) ==
    IF NewRequestFails(endpoint)
    THEN [err |-> Err("BuildError", "sts/google", 0, ""), http |-> NoRequest]
    ELSE [err |-> NoErr,
          http |-> makeSTSRequest(endpoint,
                     IF request.nil
                     THEN STSTokenExchangeRequest("", "", <<>>, "", "", "")
                     ELSE request)]

\* ExchangeSTSToken up to the HTTP call: the error it returns at once, or
\* the request makeSTSRequest sends.
ExchangeSTSToken(endpoint, request) ==
    IF request.nil
    THEN [err |-> errTokenRequestNil, http |-> NoRequest]
    ELSE IF NewRequestFails(endpoint)
    THEN [err |-> Err("BuildError", "sts/google", 0, ""), http |-> NoRequest]
    ELSE [err |-> NoErr, http |-> makeSTSRequest(endpoint, request)]

\* ExchangeServiceAccountToken up to the HTTP call.
ExchangeServiceAccountToken(endpoint, request) ==
    IF request.nil
    THEN [err |-> errTokenRequestNil, http |-> NoRequest]
    ELSE IF NewRequestFails(endpoint)
    THEN [err |-> Err("BuildError", "iamCredentials/google", 0, ""),
          http |-> NoRequest]
    ELSE [err |-> NoErr, http |-> makeIAMRequest(endpoint, request)]

\* The request obtainSTSToken builds from the identity token.
obtainSTSTokenRequest(cfg, pluginToken) ==
    STSTokenExchangeRequest("urn:ietf:params:oauth:grant-type:token-exchange",
                            cfg.Audience, defaultTokenAuthScopes,
                            "urn:ietf:params:oauth:token-type:access_token",
                            pluginToken, defaultJWTSubjectTokenType)

\* The endpoint obtainSACredential posts to.
obtainSACredentialEndpoint(cfg) ==
    iamCredentialsAPIsEndpoint \o "/v1/projects/-/serviceAccounts/"
        \o cfg.ServiceAccountEmail \o ":generateAccessToken"

\* An obtainSACredential that asks for a token that lives as long as the
\* configured TTL.
obtainSACredentialRequestWithTTL(cfg, stsToken) ==
    IAMTokenExchangeRequest(<<"https://www.googleapis.com/auth/cloud-platform">>,
                            IF cfg.TTL = 0 THEN ""
                            ELSE ToString(cfg.TTL) \o "s",
                            stsToken.AccessToken)

\* The request obtainSACredential builds; ts.config is in its reach, and it
\* takes nothing from it: Scope and STSAccessToken are set, Lifetime is
\* left at its zero value.
obtainSACredentialRequest(cfg, stsToken) ==
    IAMTokenExchangeRequest(<<"https://www.googleapis.com/auth/cloud-platform">>,
                            "", stsToken.AccessToken)

(***************************************************************************)
(* tokenSource.Token: where the chain goes after a step returned err, and  *)
(* what the invocation returns.                                            *)
(***************************************************************************)
\* A Token() that tries a failed step again.
TokenNextRetry(step, err) ==
    CASE step = "fetch" -> IF err # NoErr THEN "fetch" ELSE "stsSend"
      [] step = "sts" -> IF err # NoErr THEN "stsSend" ELSE "iamSend"
      [] step = "iam" -> IF err # NoErr THEN "iamSend" ELSE "chainRet"

\* A Token() that does not look at err before going on.
TokenNextContinue(step, err) ==
    CASE step = "fetch" -> "stsSend"
      [] step = "sts" -> "iamSend"
      [] step = "iam" -> "chainRet"

\* Whether the context the HTTP calls of Token() run under is done, given
\* whether the signal of Token()'s caller has fired: Token() takes no
\* context and makes its own, ctx := context.Background(), which is never
\* cancelled and has no deadline.
TokenCtxDone(callerSignal) == FALSE

\* Whether the context of a direct ExchangeSTSToken(ctx, ...) or
\* ExchangeServiceAccountToken(ctx, ...) call is done: the request is sent
\* with req.WithContext(ctx), ctx being the caller's.
ExchangeCtxDone(callerSignal) == callerSignal

\* A Token() that, after a failed step, waits for a signal to try again
\* that nothing sends.
TokenNextWait(step, err) ==
    IF err # NoErr THEN "retryWait"
    ELSE CASE step = "fetch" -> "stsSend"
           [] step = "sts" -> "iamSend"
           [] step = "iam" -> "chainRet"

\* Token(): each "if err != nil { return nil, err }" ends the chain.
TokenNext(step, err) ==
    IF err # NoErr THEN "chainRet"
    ELSE CASE step = "fetch" -> "stsSend"
           [] step = "sts" -> "iamSend"
           [] step = "iam" -> "chainRet"

\* The (token, error) pair a step's outcome makes Token() return, when the
\* chain ends with it.
TokenReturn(tok, err) ==
    IF err # NoErr THEN [tok |-> NilToken, err |-> err]
    ELSE [tok |-> tok, err |-> NoErr]

NoResult == [tok |-> NilToken, err |-> NoErr]

\* A Token() that returns the token of the STS exchange.
TokenResultSTS(stsTok, saCredential) == stsTok

\* The token Token() returns after both exchanges went through: "return
\* saCredential, nil", with stsToken still in scope.
TokenResult(stsTok, saCredential) == saCredential

(***************************************************************************)
(* oauth2.ReuseTokenSource(nil, ts), the source that TokenSource() returns *)
(* (golang.org/x/oauth2, oauth2.go and token.go).                          *)
(***************************************************************************)
\* An expired() that treats every token as one without expiry.
expiredNever(tk, nw) == FALSE

\* Token.expired
expired(tk, nw) ==
    IF IsZero(tk.Expiry) THEN FALSE
    ELSE tk.Expiry - expiryDelta < nw

\* A Valid() that never reuses s.t.
ValidNever(tk, nw) == FALSE

\* Token.Valid
Valid(tk, nw) == ~tk.nil /\ tk.AccessToken # "" /\ ~expired(tk, nw)

\* A Token() that does not take the mutex.
mutexFreeAlways(m) == TRUE

\* s.mu.Lock() can go on when no goroutine holds the mutex.
mutexFree(m) == m = NoProc

\* A Token() that stores what s.new.Token() returned, error or not.
reuseStoreAlways(old, r) == r.tok

\* reuseTokenSource.Token after s.new.Token() returned r: the new value of
\* s.t.
reuseStore(old, r) == IF r.err # NoErr THEN old ELSE r.tok

(***************************************************************************)
(* FindCredentials.                                                        *)
(***************************************************************************)
\* The places FindCredentials looks at, in the order of its code.
SourceOrder ==
    <<"credentialsJson", "GOOGLE_CREDENTIALS", "GOOGLE_CLOUD_KEYFILE_JSON",
      "~/.gcp/credentials", "ADC">>

\* Credential JSON as a source may hold it: one document that parses, per
\* source, and one text that json.Unmarshal rejects.
GoodJSON(email) == "{\"client_email\":\"" \o email \o "\"}"
badJSON == "{\"client_email\":"
\* ioutil.ReadFile failed: there is no readable ~/.gcp/credentials.
NoFile == "<no file>"
\* *GcpCredentials; nil is the nil pointer.
GcpCredentials(email) == [nil |-> FALSE, ClientEmail |-> email]
NilCredentials == [nil |-> TRUE, ClientEmail |-> ""]

\* Credentials(credentialsJson): json.Unmarshal into GcpCredentials.
Credentials(credentialsJson) ==
    CASE credentialsJson = GoodJSON("arg") ->
           [ok |-> TRUE, creds |-> GcpCredentials("arg")]
      [] credentialsJson = GoodJSON("env1") ->
           [ok |-> TRUE, creds |-> GcpCredentials("env1")]
      [] credentialsJson = GoodJSON("env2") ->
           [ok |-> TRUE, creds |-> GcpCredentials("env2")]
      [] credentialsJson = GoodJSON("file") ->
           [ok |-> TRUE, creds |-> GcpCredentials("file")]
      [] credentialsJson = GoodJSON("adc") ->
           [ok |-> TRUE, creds |-> GcpCredentials("adc")]
      [] OTHER -> [ok |-> FALSE, creds |-> NilCredentials]

\* What a FindCredentials call finds around it.
FindInputs ==
    [credsJson : {"", GoodJSON("arg"), badJSON},
     GOOGLE_CREDENTIALS : {"", GoodJSON("env1"), badJSON},
     GOOGLE_CLOUD_KEYFILE_JSON : {"", GoodJSON("env2"), badJSON},
     homeErr : BOOLEAN,
     file : {NoFile, "", GoodJSON("file"), badJSON},
     adc : {[kind |-> "error", json |-> ""], [kind |-> "nojson", json |-> ""],
            [kind |-> "json", json |-> GoodJSON("adc")],
            [kind |-> "json", json |-> badJSON]}]

\* A FindCredentials that reads GOOGLE_CLOUD_KEYFILE_JSON before
\* GOOGLE_CREDENTIALS.
LocateJSONKeyfileFirst(in) ==
    LET a == [json |-> in.credsJson, src |-> "credentialsJson",
              consulted |-> <<"credentialsJson">>]
        b == IF a.json = ""
             THEN [json |-> in.GOOGLE_CLOUD_KEYFILE_JSON,
                   src |-> "GOOGLE_CLOUD_KEYFILE_JSON",
                   consulted |-> Append(a.consulted, "GOOGLE_CLOUD_KEYFILE_JSON")]
             ELSE a
        c == IF b.json = ""
             THEN [json |-> in.GOOGLE_CREDENTIALS,
                   src |-> "GOOGLE_CREDENTIALS",
                   consulted |-> Append(b.consulted, "GOOGLE_CREDENTIALS")]
             ELSE b
        d == IF c.json = ""
             THEN [json |-> IF in.homeErr \/ in.file = NoFile THEN ""
                            ELSE in.file,
                   src |-> "~/.gcp/credentials",
                   consulted |-> Append(c.consulted, "~/.gcp/credentials")]
             ELSE c
    IN  [json |-> d.json, src |-> d.src, consulted |-> d.consulted,
         homeErr |-> c.json = "" /\ in.homeErr]

\* The head of FindCredentials: credsJson after the three
\* "if credsJson == \"\"" blocks, the place it came from, the places looked
\* at, and whether homedir.Dir() was called and failed.
LocateJSON(in) ==
    LET a == [json |-> in.credsJson, src |-> "credentialsJson",
              consulted |-> <<"credentialsJson">>]
        b == IF a.json = ""
             THEN [json |-> in.GOOGLE_CREDENTIALS,
                   src |-> "GOOGLE_CREDENTIALS",
                   consulted |-> Append(a.consulted, "GOOGLE_CREDENTIALS")]
             ELSE a
        c == IF b.json = ""
             THEN [json |-> in.GOOGLE_CLOUD_KEYFILE_JSON,
                   src |-> "GOOGLE_CLOUD_KEYFILE_JSON",
                   consulted |-> Append(b.consulted, "GOOGLE_CLOUD_KEYFILE_JSON")]
             ELSE b
        d == IF c.json = ""
             THEN [json |-> IF in.homeErr \/ in.file = NoFile THEN ""
                            ELSE in.file,
                   src |-> "~/.gcp/credentials",
                   consulted |-> Append(c.consulted, "~/.gcp/credentials")]
             ELSE c
    IN  [json |-> d.json, src |-> d.src, consulted |-> d.consulted,
         homeErr |-> c.json = "" /\ in.homeErr]

\* What FindCredentials returns: the credentials, the token source ("jwt"
\* for conf.TokenSource(ctx), "adc" for defaultCreds.TokenSource) and the
\* error, with the places it looked at and the places whose JSON it handed
\* to Credentials().
FindResult(creds, tokenSource, err, consulted, parsed) ==
    [creds |-> creds, tokenSource |-> tokenSource, err |-> err,
     consulted |-> consulted, parsed |-> parsed]

\* A FindCredentials that returns the error of a credentials JSON that does
\* not parse.
FindCredentialsParseError(in) ==
    LET l == LocateJSON(in)
        first == Credentials(l.json)
        parsed == IF l.json # "" THEN <<l.src>> ELSE <<>>
        consulted == Append(l.consulted, "ADC")
    IN  IF l.homeErr
        THEN FindResult(NilCredentials, "nil",
                        "could not find home directory", l.consulted, <<>>)
        ELSE IF l.json # "" /\ first.ok
        THEN FindResult(first.creds, "jwt", "", l.consulted, parsed)
        ELSE IF l.json # ""
        THEN FindResult(NilCredentials, "nil", "could not parse credentials",
                        l.consulted, parsed)
        ELSE IF in.adc.kind = "error"
        THEN FindResult(NilCredentials, "nil", "FindDefaultCredentials",
                        consulted, parsed)
        ELSE IF in.adc.kind = "nojson"
        THEN FindResult(NilCredentials, "adc", "", consulted, parsed)
        ELSE IF ~Credentials(in.adc.json).ok
        THEN FindResult(NilCredentials, "nil",
                        "could not read credentials from application default credential JSON",
                        consulted, Append(parsed, "ADC"))
        ELSE FindResult(Credentials(in.adc.json).creds, "adc", "",
                        consulted, Append(parsed, "ADC"))

FindCredentials(in) ==
    LET l == LocateJSON(in)
        first == Credentials(l.json)
        parsed == IF l.json # "" THEN <<l.src>> ELSE <<>>
        consulted == Append(l.consulted, "ADC")
    IN  IF l.homeErr
        THEN FindResult(NilCredentials, "nil",
                        "could not find home directory", l.consulted, <<>>)
        ELSE IF l.json # "" /\ first.ok
        THEN FindResult(first.creds, "jwt", "", l.consulted, parsed)
        ELSE IF in.adc.kind = "error"
        THEN FindResult(NilCredentials, "nil", "FindDefaultCredentials",
                        consulted, parsed)
        ELSE IF in.adc.kind = "nojson"
        THEN FindResult(NilCredentials, "adc", "", consulted, parsed)
        ELSE IF ~Credentials(in.adc.json).ok
        THEN FindResult(NilCredentials, "nil",
                        "could not read credentials from application default credential JSON",
                        consulted, Append(parsed, "ADC"))
        ELSE FindResult(Credentials(in.adc.json).creds, "adc", "",
                        consulted, Append(parsed, "ADC"))

(***************************************************************************)
(* State.                                                                  *)
(***************************************************************************)
VARIABLES
    now,          \* time.Now()
    mu,           \* reuseTokenSource.mu: the goroutine holding it, or NoProc
    t,            \* reuseTokenSource.t: the cached token
    pc,           \* where each goroutine is
    pluginToken,  \* Token()'s local pluginToken, per goroutine
    stsToken,     \* Token()'s local stsToken, per goroutine
    inflight,     \* the HTTP request each goroutine waits on
    chainRes,     \* what each goroutine's tokenSource.Token() returned
    steps,        \* history: the steps each goroutine's Token() has started
    failedStep,   \* history: the step of it that returned an error, or ""
    observed,     \* history: the answer to its latest HTTP call
    last,         \* history: the latest hand-over of the wrapped source
    xreq,         \* the request of a direct exchange call, per goroutine
    xres,         \* history: the latest result of a direct exchange call
    cancelled,    \* whether the cancellation signal of each goroutine's
                  \* caller has fired while its network call was in flight
    stsSeen,      \* history: the answer to the STS call of its Token()
    found,        \* history: the latest FindCredentials call, what it was
                  \* given and what it returned
    ttl           \* the TTL field of the ExternalAccountConfig the token
                  \* source refers to

vars == <<now, mu, t, pc, pluginToken, stsToken, inflight, chainRes, steps,
          failedStep, observed, last, xreq, xres, cancelled, stsSeen, found,
          ttl>>
chainVars == <<pluginToken, stsToken, inflight, chainRes, steps, failedStep,
               observed, stsSeen>>
exchangeVars == <<xreq, xres>>

NoLast ==
    [proc |-> NoProc, tok |-> NilToken, err |-> NoErr, at |-> ZeroTime,
     cached |-> FALSE]
NoExchange ==
    [fn |-> "", req |-> NilRequest, sent |-> FALSE,
     observed |-> NoOutcome, isNil |-> TRUE, resp |-> NilSTSResponse,
     err |-> NoErr]
NoObserved == [api |-> "", o |-> NoOutcome]
NoFind == [called |-> FALSE]

\* Everything but the configuration, before any call.
InitState ==
    /\ now = StartTime
    /\ mu = NoProc
    /\ t = NilToken
    /\ pc = [p \in Procs |-> "idle"]
    /\ pluginToken = [p \in Procs |-> ""]
    /\ stsToken = [p \in Procs |-> NilToken]
    /\ inflight = [p \in Procs |-> NoRequest]
    /\ chainRes = [p \in Procs |-> NoResult]
    /\ steps = [p \in Procs |-> <<>>]
    /\ failedStep = [p \in Procs |-> ""]
    /\ observed = [p \in Procs |-> NoObserved]
    /\ last = NoLast
    /\ xreq = [p \in Procs |-> NilRequest]
    /\ xres = NoExchange
    /\ cancelled = [p \in Procs |-> FALSE]
    /\ stsSeen = [p \in Procs |-> NoOutcome]
    /\ found = NoFind

\* The configuration as the consumer built it; tsConfig is what ts.config
\* points to.
tsConfig == [config EXCEPT !.TTL = ttl]

Init == ttl = config.TTL /\ InitState

(***************************************************************************)
(* What the endpoints answer to the calls of a Token() chain.              *)
(***************************************************************************)
ChainSTSOutcomes ==
    { Transport, Response(403, bodyErrorJSON), Response(200, bodyHTML),
      Response(200, bodySTSGood), Response(200, bodySTSZero),
      Response(200, bodySTSNegative) }
ChainIAMOutcomes ==
    { Transport, Response(404, bodyIAMLate), Response(200, bodyIAMBadType),
      Response(200, bodyIAMLate), Response(200, bodyIAMLateOffset),
      Response(200, bodyIAMEarly), Response(200, bodyIAMZero),
      Response(200, bodyIAMGoString), Response(200, bodyIAMNoToken) }

(***************************************************************************)
(* The clock.                                                              *)
(***************************************************************************)
Tick ==
    /\ now + TickSeconds <= MaxTime
    /\ now' = now + TickSeconds
    /\ UNCHANGED <<ttl, found, mu, t, pc, chainVars, last, exchangeVars,
                   cancelled>>

(***************************************************************************)
(* reuseTokenSource.Token, around the chain.                               *)
(***************************************************************************)
\* A goroutine calls Token() on the source TokenSource() returned and
\* reaches s.mu.Lock().
ReuseCall(p) ==
    /\ pc[p] = "idle"
    /\ pc' = [pc EXCEPT ![p] = "lock"]
    /\ UNCHANGED <<ttl, found, now, mu, t, chainVars, last, exchangeVars, cancelled>>

\* It gets the mutex: a valid s.t is returned (the deferred Unlock runs),
\* otherwise s.new.Token() is called with the mutex held.
ReuseAcquire(p) ==
    /\ pc[p] = "lock"
    /\ mutexFree(mu)
    /\ IF Valid(t, now)
       THEN /\ last' = [proc |-> p, tok |-> t, err |-> NoErr, at |-> now,
                        cached |-> TRUE]
            /\ pc' = [pc EXCEPT ![p] = "idle"]
            /\ UNCHANGED mu
       ELSE /\ mu' = p
            /\ pc' = [pc EXCEPT ![p] = "fetch"]
            /\ UNCHANGED last
    /\ UNCHANGED <<ttl, found, now, t, chainVars, exchangeVars, cancelled>>

\* s.new.Token() returned: s.t is set on success, the result goes to the
\* caller and the deferred Unlock runs.
ReuseFinish(p) ==
    /\ pc[p] = "chainRet"
    /\ mu = p
    /\ t' = reuseStore(t, chainRes[p])
    /\ last' = [proc |-> p,
                tok |-> IF chainRes[p].err # NoErr THEN NilToken
                        ELSE chainRes[p].tok,
                err |-> chainRes[p].err, at |-> now, cached |-> FALSE]
    /\ mu' = NoProc
    /\ pc' = [pc EXCEPT ![p] = "idle"]
    /\ chainRes' = [chainRes EXCEPT ![p] = NoResult]
    /\ steps' = [steps EXCEPT ![p] = <<>>]
    /\ failedStep' = [failedStep EXCEPT ![p] = ""]
    /\ observed' = [observed EXCEPT ![p] = NoObserved]
    /\ stsSeen' = [stsSeen EXCEPT ![p] = NoOutcome]
    /\ UNCHANGED <<ttl, found, now, pluginToken, stsToken, inflight, exchangeVars,
                   cancelled>>

(***************************************************************************)
(* tokenSource.Token: the chain.  A step that ends the invocation sets     *)
(* chainRes to what Token() returns; Token()'s locals are gone then.       *)
(***************************************************************************)
\* The chain state of goroutine p after its step `step` returned (tok, err).
AfterStep(p, step, tok, err) ==
    LET n == TokenNext(step, err)
    IN  /\ pc' = [pc EXCEPT ![p] = n]
        /\ failedStep' = [failedStep EXCEPT ![p] =
                            IF err # NoErr THEN step ELSE @]
        /\ chainRes' = [chainRes EXCEPT ![p] =
                          IF n = "chainRet" THEN TokenReturn(tok, err) ELSE @]
        /\ pluginToken' = [pluginToken EXCEPT ![p] =
                             IF n = "chainRet" THEN ""
                             ELSE IF step = "fetch" THEN tok.AccessToken
                             ELSE @]
        /\ stsToken' = [stsToken EXCEPT ![p] =
                          IF n = "chainRet" THEN NilToken
                          ELSE IF step = "sts" THEN tok
                          ELSE @]

\* A Token() that keeps stsToken in a place all invocations share: p hands
\* on the token another invocation has put there.
stsTokenArgShared(p) ==
    LET others == {q \in Procs \ {p} : ~stsToken[q].nil}
    IN  IF others # {} THEN stsToken[CHOOSE q \in others : TRUE]
        ELSE stsToken[p]

\* The stsToken that Token() of goroutine p hands to obtainSACredential: its
\* own local, set from its own obtainSTSToken call.
stsTokenArg(p) == stsToken[p]

\* ts.config.TokenFetcher(ctx, ts.config) is called and returns.
FetchIdentityToken(p) ==
    /\ pc[p] = "fetch"
    /\ \E r \in FetcherResults :
         AfterStep(p, "fetch", Token(r.token, "", "", ZeroTime),
                   IF r.failed THEN Err("FetchError", "", 0, "") ELSE NoErr)
    /\ steps' = [steps EXCEPT ![p] = Append(@, "fetch")]
    /\ UNCHANGED <<ttl, found, now, mu, t, inflight, observed, last, exchangeVars,
                   cancelled, stsSeen>>

\* obtainSTSToken builds the request and ExchangeSTSToken sends it.
STSSend(p) ==
    /\ pc[p] = "stsSend"
    /\ LET c == ExchangeSTSToken(stsTokenAPIEndpoint,
                                 obtainSTSTokenRequest(tsConfig, pluginToken[p]))
           r == obtainSTSTokenResult(
                    [resp |-> NilSTSResponse, isNil |-> TRUE, err |-> c.err], now)
       IN  IF c.err # NoErr
           THEN /\ AfterStep(p, "sts", r.tok, r.err)
                /\ UNCHANGED inflight
           ELSE /\ pc' = [pc EXCEPT ![p] = "stsWait"]
                /\ inflight' = [inflight EXCEPT ![p] = c.http]
                /\ UNCHANGED <<chainRes, pluginToken, stsToken, failedStep>>
    /\ steps' = [steps EXCEPT ![p] = Append(@, "sts")]
    /\ UNCHANGED <<ttl, found, now, mu, t, observed, last, exchangeVars, cancelled,
                   stsSeen>>

\* The STS call ends; obtainSTSToken checks the expiry and returns.
STSRecv(p) ==
    /\ pc[p] = "stsWait"
    /\ \E o \in (IF TokenCtxDone(cancelled[p]) THEN {Canceled}
                 ELSE ChainSTSOutcomes) :
         LET r == obtainSTSTokenResult(makeSTSRequestResult(o), now)
         IN  /\ AfterStep(p, "sts", r.tok, r.err)
             /\ observed' = [observed EXCEPT ![p] = [api |-> "sts", o |-> o]]
             /\ stsSeen' = [stsSeen EXCEPT ![p] = o]
    /\ inflight' = [inflight EXCEPT ![p] = NoRequest]
    /\ UNCHANGED <<ttl, found, now, mu, t, steps, last, exchangeVars, cancelled>>

\* obtainSACredential builds the request and ExchangeServiceAccountToken
\* sends it.
IAMSend(p) ==
    /\ pc[p] = "iamSend"
    /\ LET c == ExchangeServiceAccountToken(
                    obtainSACredentialEndpoint(tsConfig),
                    obtainSACredentialRequest(tsConfig, stsTokenArg(p)))
           r == obtainSACredentialResult(
                    [resp |-> NilIAMResponse, isNil |-> TRUE, err |-> c.err])
       IN  IF c.err # NoErr
           THEN /\ AfterStep(p, "iam", r.tok, r.err)
                /\ UNCHANGED inflight
           ELSE /\ pc' = [pc EXCEPT ![p] = "iamWait"]
                /\ inflight' = [inflight EXCEPT ![p] = c.http]
                /\ UNCHANGED <<chainRes, pluginToken, stsToken, failedStep>>
    /\ steps' = [steps EXCEPT ![p] = Append(@, "iam")]
    /\ UNCHANGED <<ttl, found, now, mu, t, observed, last, exchangeVars, cancelled,
                   stsSeen>>

\* The IAM call ends; obtainSACredential parses the expiry and Token()
\* returns.
IAMRecv(p) ==
    /\ pc[p] = "iamWait"
    /\ \E o \in (IF TokenCtxDone(cancelled[p]) THEN {Canceled}
                 ELSE ChainIAMOutcomes) :
         LET r == obtainSACredentialResult(makeIAMRequestResult(o))
         IN  /\ AfterStep(p, "iam", TokenResult(stsToken[p], r.tok), r.err)
             /\ observed' = [observed EXCEPT ![p] = [api |-> "iam", o |-> o]]
    /\ inflight' = [inflight EXCEPT ![p] = NoRequest]
    /\ UNCHANGED <<ttl, found, now, mu, t, steps, last, exchangeVars, cancelled,
                   stsSeen>>

Next ==
    \/ Tick
    \/ \E p \in Procs : ReuseCall(p)
    \/ \E p \in Procs : ReuseAcquire(p)
    \/ \E p \in Procs : ReuseFinish(p)
    \/ \E p \in Procs : FetchIdentityToken(p)
    \/ \E p \in Procs : STSSend(p)
    \/ \E p \in Procs : STSRecv(p)
    \/ \E p \in Procs : IAMSend(p)
    \/ \E p \in Procs : IAMRecv(p)

Spec == Init /\ [][Next]_vars

(***************************************************************************)
(* Direct calls of the two exchange functions.                             *)
(***************************************************************************)
\* The requests of token_exchange_test.go, and two that differ from them.
stsTokenRequest ==
    STSTokenExchangeRequest("urn:ietf:params:oauth:grant-type:token-exchange",
                            "test-audience",
                            <<"https://www.googleapis.com/auth/cloud-platform">>,
                            "urn:ietf:params:oauth:token-type:access_token",
                            "test-workloadIdentity-token",
                            "urn:ietf:params:oauth:token-type:jwt")
stsOtherRequest ==
    STSTokenExchangeRequest("password", "aud-2", <<"scope-a", "scope-b">>,
                            "urn:ietf:params:oauth:token-type:id_token",
                            "subject-2", "urn:ietf:params:oauth:token-type:saml2")
iamTokenRequest ==
    IAMTokenExchangeRequest(<<"https://www.googleapis.com/auth/cloud-platform">>,
                            "", "test-token")
iamLifetimeRequest ==
    IAMTokenExchangeRequest(<<"scope-a", "scope-b">>, "3600s", "sts-2")

STSRequests == {NilRequest, stsTokenRequest, stsOtherRequest}
IAMRequests == {NilRequest, iamTokenRequest, iamLifetimeRequest}
Endpoints == {"http://127.0.0.1:8080", badEndpoint}

ExchangeStatuses == {199, 200, 299, 300, 404}
ExchangeSTSOutcomes ==
    {Transport}
      \cup {ReadFail(c) : c \in {200, 404}}
      \cup {Response(c, b) : c \in ExchangeStatuses,
                             b \in {bodyHTML, bodyErrorJSON, bodySTSGood}}
ExchangeIAMOutcomes ==
    {Transport}
      \cup {ReadFail(c) : c \in {200, 404}}
      \cup {Response(c, b) : c \in ExchangeStatuses,
                             b \in {bodyHTML, bodyErrorJSON, bodyIAMLate,
                                    bodyIAMGoString}}

\* A goroutine calls ExchangeSTSToken(ctx, endpoint, request).
ExchangeSTSTokenCall(p) ==
    /\ pc[p] = "idle"
    /\ \E endpoint \in Endpoints, request \in STSRequests :
         LET c == ExchangeSTSToken(endpoint, request)
         IN  IF c.err # NoErr
             THEN /\ xres' = [fn |-> "ExchangeSTSToken",
                              req |-> request, sent |-> c.http # NoRequest,
                              observed |-> NoOutcome, isNil |-> TRUE,
                              resp |-> NilSTSResponse, err |-> c.err]
                  /\ UNCHANGED <<pc, inflight, xreq>>
             ELSE /\ pc' = [pc EXCEPT ![p] = "exchangeSTSWait"]
                  /\ inflight' = [inflight EXCEPT ![p] = c.http]
                  /\ xreq' = [xreq EXCEPT ![p] = request]
                  /\ UNCHANGED xres
    /\ UNCHANGED <<ttl, found, now, mu, t, pluginToken, stsToken, chainRes, steps,
                   failedStep, observed, last, cancelled, stsSeen>>

\* Its HTTP call ends and makeSTSRequest returns.
ExchangeSTSTokenReturn(p) ==
    /\ pc[p] = "exchangeSTSWait"
    /\ \E o \in (IF ExchangeCtxDone(cancelled[p]) THEN {Canceled}
                 ELSE ExchangeSTSOutcomes) :
         LET r == makeSTSRequestResult(o)
         IN  xres' = [fn |-> "ExchangeSTSToken", req |-> xreq[p],
                      sent |-> inflight[p] # NoRequest, observed |-> o,
                      isNil |-> r.isNil, resp |-> r.resp, err |-> r.err]
    /\ pc' = [pc EXCEPT ![p] = "idle"]
    /\ inflight' = [inflight EXCEPT ![p] = NoRequest]
    /\ xreq' = [xreq EXCEPT ![p] = NilRequest]
    /\ cancelled' = [cancelled EXCEPT ![p] = FALSE]
    /\ UNCHANGED <<ttl, found, now, mu, t, pluginToken, stsToken, chainRes, steps,
                   failedStep, observed, last, stsSeen>>

\* A goroutine calls ExchangeServiceAccountToken(ctx, endpoint, request).
ExchangeServiceAccountTokenCall(p) ==
    /\ pc[p] = "idle"
    /\ \E endpoint \in Endpoints, request \in IAMRequests :
         LET c == ExchangeServiceAccountToken(endpoint, request)
         IN  IF c.err # NoErr
             THEN /\ xres' = [fn |-> "ExchangeServiceAccountToken",
                              req |-> request, sent |-> c.http # NoRequest,
                              observed |-> NoOutcome, isNil |-> TRUE,
                              resp |-> NilIAMResponse, err |-> c.err]
                  /\ UNCHANGED <<pc, inflight, xreq>>
             ELSE /\ pc' = [pc EXCEPT ![p] = "exchangeIAMWait"]
                  /\ inflight' = [inflight EXCEPT ![p] = c.http]
                  /\ xreq' = [xreq EXCEPT ![p] = request]
                  /\ UNCHANGED xres
    /\ UNCHANGED <<ttl, found, now, mu, t, pluginToken, stsToken, chainRes, steps,
                   failedStep, observed, last, cancelled, stsSeen>>

\* Its HTTP call ends and makeIAMRequest returns.
ExchangeServiceAccountTokenReturn(p) ==
    /\ pc[p] = "exchangeIAMWait"
    /\ \E o \in (IF ExchangeCtxDone(cancelled[p]) THEN {Canceled}
                 ELSE ExchangeIAMOutcomes) :
         LET r == makeIAMRequestResult(o)
         IN  xres' = [fn |-> "ExchangeServiceAccountToken",
                      req |-> xreq[p], sent |-> inflight[p] # NoRequest,
                      observed |-> o, isNil |-> r.isNil, resp |-> r.resp,
                      err |-> r.err]
    /\ pc' = [pc EXCEPT ![p] = "idle"]
    /\ inflight' = [inflight EXCEPT ![p] = NoRequest]
    /\ xreq' = [xreq EXCEPT ![p] = NilRequest]
    /\ cancelled' = [cancelled EXCEPT ![p] = FALSE]
    /\ UNCHANGED <<ttl, found, now, mu, t, pluginToken, stsToken, chainRes, steps,
                   failedStep, observed, last, stsSeen>>

\* The context of p's caller is cancelled, or its deadline passes, while
\* a network call made on p's behalf is in flight.
WaitPcs == {"stsWait", "iamWait", "exchangeSTSWait", "exchangeIAMWait"}
CallerCancel(p) ==
    /\ pc[p] \in WaitPcs
    /\ ~cancelled[p]
    /\ cancelled' = [cancelled EXCEPT ![p] = TRUE]
    /\ UNCHANGED <<ttl, found, now, mu, t, pc, chainVars, last, exchangeVars>>

NextExchange ==
    \/ \E p \in Procs : CallerCancel(p)
    \/ \E p \in Procs : ExchangeSTSTokenCall(p)
    \/ \E p \in Procs : ExchangeSTSTokenReturn(p)
    \/ \E p \in Procs : ExchangeServiceAccountTokenCall(p)
    \/ \E p \in Procs : ExchangeServiceAccountTokenReturn(p)

SpecExchange == Init /\ [][NextExchange]_vars

(***************************************************************************)
(* tokenSource.Token called directly, without the reuse wrapper: the       *)
(* tokenSource struct holds the configuration only, so an invocation       *)
(* leaves nothing behind in it.                                            *)
(***************************************************************************)
\* A Token() that lets one invocation at a time run the chain.
RawCallSingleFlight(p) ==
    /\ pc[p] = "idle"
    /\ \A q \in Procs : pc[q] = "idle"
    /\ pc' = [pc EXCEPT ![p] = "fetch"]
    /\ UNCHANGED <<ttl, found, now, mu, t, chainVars, last, exchangeVars, cancelled>>

\* A goroutine calls Token() on the tokenSource itself.
RawCall(p) ==
    /\ pc[p] = "idle"
    /\ pc' = [pc EXCEPT ![p] = "fetch"]
    /\ UNCHANGED <<ttl, found, now, mu, t, chainVars, last, exchangeVars, cancelled>>

\* Token() hands its result to that caller.
RawReturn(p) ==
    /\ pc[p] = "chainRet"
    /\ mu # p
    /\ pc' = [pc EXCEPT ![p] = "idle"]
    /\ chainRes' = [chainRes EXCEPT ![p] = NoResult]
    /\ steps' = [steps EXCEPT ![p] = <<>>]
    /\ failedStep' = [failedStep EXCEPT ![p] = ""]
    /\ observed' = [observed EXCEPT ![p] = NoObserved]
    /\ stsSeen' = [stsSeen EXCEPT ![p] = NoOutcome]
    /\ cancelled' = [cancelled EXCEPT ![p] = FALSE]
    /\ UNCHANGED <<ttl, found, now, mu, t, pluginToken, stsToken, inflight, last,
                   exchangeVars>>

NextRaw ==
    \/ \E p \in Procs : RawCall(p)
    \/ \E p \in Procs : FetchIdentityToken(p)
    \/ \E p \in Procs : STSSend(p)
    \/ \E p \in Procs : STSRecv(p)
    \/ \E p \in Procs : IAMSend(p)
    \/ \E p \in Procs : IAMRecv(p)
    \/ \E p \in Procs : RawReturn(p)

SpecRaw == Init /\ [][NextRaw]_vars

\* The same under the conditions of a run in which nothing outside Token()
\* holds it up: the goroutine is scheduled, the fetcher returns, and every
\* HTTP call that was sent ends with an answer or an error.
\* At most one of p's steps is enabled at a time (each has its own pc), so
\* fairness for the step p is at is fairness for their disjunction.
Progress(p) ==
    WF_vars(\/ FetchIdentityToken(p)
            \/ STSSend(p)
            \/ STSRecv(p)
            \/ IAMSend(p)
            \/ IAMRecv(p)
            \/ RawReturn(p))

LiveSpecRaw == Init /\ [][NextRaw]_vars /\ \A p \in Procs : Progress(p)

\* The same for token sources whose configurations differ in the TTL only.
TTLs == {0, config.TTL, 2 * config.TTL}
InitTTL == ttl \in TTLs /\ InitState
SpecTTL == InitTTL /\ [][NextRaw]_vars

\* The same, with callers whose cancellation signal may fire.
NextCancel ==
    \/ \E p \in Procs : RawCall(p)
    \/ \E p \in Procs : CallerCancel(p)
    \/ \E p \in Procs : FetchIdentityToken(p)
    \/ \E p \in Procs : STSSend(p)
    \/ \E p \in Procs : STSRecv(p)
    \/ \E p \in Procs : IAMSend(p)
    \/ \E p \in Procs : IAMRecv(p)
    \/ \E p \in Procs : RawReturn(p)

SpecCancel == Init /\ [][NextCancel]_vars

(***************************************************************************)
(* Calls of FindCredentials.                                               *)
(***************************************************************************)
\* A goroutine calls FindCredentials(credsJson, ctx, scopes...) and it
\* returns.
FindCredentialsCall ==
    /\ \E in \in FindInputs :
         found' = [called |-> TRUE, in |-> in, out |-> FindCredentials(in)]
    /\ UNCHANGED <<ttl, now, mu, t, pc, chainVars, last, exchangeVars,
                   cancelled>>

NextFind == FindCredentialsCall

SpecFind == Init /\ [][NextFind]_vars

(***************************************************************************)
(* Properties.                                                             *)
(***************************************************************************)
StepOrder == <<"fetch", "sts", "iam">>
IsPrefix(s, q) ==
    /\ Len(s) <= Len(q)
    /\ \A i \in 1..Len(s) : s[i] = q[i]
ChainPcs == {"fetch", "stsSend", "stsWait", "iamSend", "iamWait", "chainRet"}
Is2xx(o) == o.kind = "response" /\ o.status >= 200 /\ o.status <= 299

\* C1: the steps of every Token() invocation are started in the order
\* identity-token fetch, STS exchange, IAM exchange, each at most once, and
\* an invocation that succeeded has started each exactly once.
C1_StepsInOrderOnce ==
    \A p \in Procs :
        /\ IsPrefix(steps[p], StepOrder)
        /\ (pc[p] = "chainRet" /\ chainRes[p].err = NoErr)
              => steps[p] = StepOrder
        /\ pc[p] \in {"stsSend"} => steps[p] = <<"fetch">>
        /\ pc[p] \in {"stsWait", "iamSend"} => steps[p] = <<"fetch", "sts">>
        /\ pc[p] = "iamWait" => steps[p] = StepOrder

C1_Witness ==
    \E p \in Procs :
        pc[p] = "chainRet" /\ chainRes[p].err = NoErr /\ steps[p] = StepOrder

\* C2: once a step of a Token() invocation has failed, the invocation has
\* returned an error and no token, it starts no further step and sends
\* nothing, and when the wrapper hands the result on, the caller gets that
\* error and no token and the cached token stays as it was.
C2_FailureAborts ==
    [][\A p \in Procs :
          failedStep[p] # "" =>
              /\ pc[p] = "chainRet"
              /\ chainRes[p].tok = NilToken
              /\ chainRes[p].err # NoErr
              /\ inflight[p] = NoRequest
              /\ steps[p][Len(steps[p])] = failedStep[p]
              /\ steps'[p] \in {steps[p], <<>>}
              /\ pc'[p] # pc[p] =>
                    /\ pc'[p] = "idle"
                    /\ t' = t
                    /\ last' = [proc |-> p, tok |-> NilToken,
                                err |-> chainRes[p].err, at |-> now,
                                cached |-> FALSE]]_vars

C2_Witness ==
    \E p \in Procs :
        /\ failedStep[p] = "sts"
        /\ pc[p] = "chainRet"
        /\ chainRes[p].err.kind = "ExchangeError"
        /\ ~t.nil

\* C3 as stated: every token handed to a caller of the wrapped source has
\* an expiry later than the time of the hand-over.
C3_ServedTokenNotExpired ==
    (last.proc # NoProc /\ ~last.tok.nil) => last.tok.Expiry > last.at

\* C3 as amended: a token served from the cache has, at the check made
\* under the mutex right before it is returned, an expiry at least
\* expiryDelta later than the current time, so an expired cached token is
\* never served as it is; a token that is not served from the cache is the
\* result of a chain that was run for this call and returned no error.
C3_CachedTokenNotExpired ==
    (last.proc # NoProc /\ ~last.tok.nil) =>
        IF last.cached
        THEN /\ last.tok.Expiry - expiryDelta >= last.at
             /\ last.tok.Expiry > last.at
        ELSE last.err = NoErr

C3_Witness ==
    /\ last.proc # NoProc
    /\ last.cached
    /\ last.tok.Expiry - expiryDelta = last.at
    /\ last.at > StartTime

\* C4: when the STS endpoint answers 2xx with a negative expires_in, the
\* invocation has ended with InvalidExpiryError and no token, and the IAM
\* exchange was not started.
C4_NegativeExpiresIn ==
    \A p \in Procs :
        ( /\ observed[p].api = "sts"
          /\ Is2xx(observed[p].o)
          /\ UnmarshalSTS(observed[p].o.body).ok
          /\ UnmarshalSTS(observed[p].o.body).v.ExpiresIn < 0 )
        => /\ pc[p] = "chainRet"
           /\ chainRes[p].err.kind = "InvalidExpiryError"
           /\ chainRes[p].err.api = "sts/google"
           /\ chainRes[p].tok = NilToken
           /\ steps[p] = <<"fetch", "sts">>

C4_Witness ==
    \E p \in Procs :
        /\ observed[p] = [api |-> "sts", o |-> Response(200, bodySTSNegative)]
        /\ pc[p] = "chainRet"

\* C5: when the IAM endpoint answers 2xx with a body that decodes, Token()
\* fails with TimeParseError if expireTime is not RFC3339, with
\* InvalidExpiryError if it is the zero time, both without a token, and
\* succeeds with the parsed expiry otherwise.
C5_ExpireTime ==
    \A p \in Procs :
        ( /\ observed[p].api = "iam"
          /\ Is2xx(observed[p].o)
          /\ UnmarshalIAM(observed[p].o.body).ok )
        => LET resp == UnmarshalIAM(observed[p].o.body).v
               parsed == ParseRFC3339(resp.ExpireTime)
           IN  /\ pc[p] = "chainRet"
               /\ ~parsed.ok =>
                     /\ chainRes[p].err.kind = "TimeParseError"
                     /\ chainRes[p].tok = NilToken
               /\ (parsed.ok /\ parsed.t = ZeroTime) =>
                     /\ chainRes[p].err.kind = "InvalidExpiryError"
                     /\ chainRes[p].tok = NilToken
               /\ (parsed.ok /\ parsed.t # ZeroTime) =>
                     /\ chainRes[p].err = NoErr
                     /\ ~chainRes[p].tok.nil
                     /\ chainRes[p].tok.Expiry = parsed.t

C5_Witness ==
    \E p \in Procs :
        /\ observed[p] = [api |-> "iam", o |-> Response(200, bodyIAMZero)]
        /\ chainRes[p].err.kind = "InvalidExpiryError"

\* C6: a call of ExchangeSTSToken or ExchangeServiceAccountToken with a nil
\* request returns errTokenRequestNil and no response and sends no HTTP
\* request, whatever the endpoint.
C6_NilRequest ==
    (xres.fn # "" /\ xres.req.nil) =>
        /\ xres.err = errTokenRequestNil
        /\ xres.isNil
        /\ ~xres.sent
        /\ xres.observed = NoOutcome

C6_Witness ==
    /\ xres.fn # ""
    /\ xres.req.nil
    /\ xres.fn = "ExchangeServiceAccountToken"
    /\ xres.err = errTokenRequestNil

\* C7: for both exchange calls, a response with a status outside 200..299
\* gives an error with that status and that body and no parsed response,
\* whatever the body; a status inside 200..299 gives no such error.
C7_StatusError ==
    (xres.fn # "" /\ xres.observed.kind = "response") =>
        IF xres.observed.status < 200 \/ xres.observed.status > 299
        THEN /\ xres.err.kind = "ExchangeError"
             /\ xres.err.status = xres.observed.status
             /\ xres.err.body = xres.observed.body
             /\ xres.err.api = IF xres.fn = "ExchangeSTSToken"
                               THEN "sts/google" ELSE "iamCredentials/google"
             /\ xres.isNil
        ELSE xres.err.kind # "ExchangeError"

C7_Witness ==
    /\ xres.fn # ""
    /\ xres.fn = "ExchangeServiceAccountToken"
    /\ xres.observed = Response(300, bodyIAMLate)
    /\ xres.err.kind = "ExchangeError"

\* The cached token is one reuseTokenSource takes as valid at time now.
CachedTokenValid ==
    /\ ~t.nil
    /\ t.AccessToken # ""
    /\ (t.Expiry = ZeroTime \/ t.Expiry - expiryDelta >= now)

\* C8: while the cached token is valid, a Token() call on the wrapped
\* source that gets past the mutex returns the cached token, starts no step
\* of the chain, sends nothing and leaves the cache as it is.
C8_ValidTokenReused ==
    [][\A p \in Procs :
          (pc[p] = "lock" /\ pc'[p] # "lock" /\ CachedTokenValid) =>
              /\ pc'[p] = "idle"
              /\ last' = [proc |-> p, tok |-> t, err |-> NoErr, at |-> now,
                          cached |-> TRUE]
              /\ t' = t
              /\ steps' = steps
              /\ inflight' = inflight]_vars

C8_Witness ==
    /\ last.proc # NoProc
    /\ last.cached
    /\ last.tok = t
    /\ last.at = now
    /\ \A p \in Procs : pc[p] = "idle"

\* C9: at most one goroutine is inside the exchange chain of the wrapped
\* source at any time, and it holds the mutex; every other caller is
\* outside Token() or waits for the mutex.
C9_SingleRefresh ==
    /\ Cardinality({p \in Procs : pc[p] \in ChainPcs}) <= 1
    /\ \A p \in Procs : pc[p] \in ChainPcs => mu = p
    /\ \A p \in Procs : pc[p] \notin ChainPcs => pc[p] \in {"idle", "lock"}

C9_Witness ==
    \E p, q \in Procs :
        /\ p # q
        /\ pc[p] = "iamWait"
        /\ pc[q] = "lock"

\* C10: when the chain run by the wrapped source returns an error, the
\* cached token stays as it was and the caller that ran the chain gets the
\* error; the cached token changes only in the step that ends a successful
\* chain, and then to that chain's token.
C10_CacheReplacedOnSuccessOnly ==
    [][/\ \A p \in Procs :
            (pc[p] = "chainRet" /\ pc'[p] # "chainRet") =>
                IF chainRes[p].err # NoErr
                THEN /\ t' = t
                     /\ last'.proc = p
                     /\ last'.err = chainRes[p].err
                     /\ last'.tok = NilToken
                ELSE /\ t' = chainRes[p].tok
                     /\ last'.proc = p
                     /\ last'.err = NoErr
                     /\ last'.tok = chainRes[p].tok
       /\ t' # t =>
            \E p \in Procs :
                /\ pc[p] = "chainRet"
                /\ pc'[p] = "idle"
                /\ chainRes[p].err = NoErr
                /\ t' = chainRes[p].tok]_vars

C10_Witness ==
    /\ last.proc # NoProc
    /\ last.err # NoErr
    /\ ~last.cached
    /\ ~t.nil

\* C11: once the cancellation signal of a caller has fired while a network
\* call made on its behalf was in flight, that call is not waited for: the
\* operation is either still to notice the signal or has ended with a
\* CanceledError, and it has not gone on with an answer of the endpoint.
\* This is the claim as stated, for Token() as for the exchange functions.
C11_CancelAborts ==
    \A p \in Procs :
        cancelled[p] =>
            \/ pc[p] \in WaitPcs /\ inflight[p] # NoRequest
            \/ /\ pc[p] = "chainRet"
               /\ chainRes[p].err.kind = "CanceledError"
               /\ chainRes[p].tok = NilToken

\* The part of C11 that the exchange functions keep: a direct call whose
\* caller's signal fired in flight returns a CanceledError and no response,
\* whatever the endpoint would have answered.
ExchangeCancelAborts ==
    [][\A p \in Procs :
          ( /\ pc[p] \in {"exchangeSTSWait", "exchangeIAMWait"}
            /\ cancelled[p]
            /\ pc'[p] # pc[p] )
          => /\ xres'.err.kind = "CanceledError"
             /\ xres'.isNil
             /\ xres'.observed = Canceled]_vars

\* C12: on the unwrapped tokenSource every Token() invocation starts at the
\* identity-token fetch with no step done, an invocation that has returned
\* ran from the fetch on and, when it succeeded, ran all three steps; and
\* no invocation waits for another: a caller can always enter, and every
\* invocation inside the chain can take its next step whatever the others
\* do.
C12_IndependentFullChains ==
    [][\A p \in Procs :
          /\ (pc[p] = "idle" /\ pc'[p] # "idle") =>
                /\ pc'[p] = "fetch"
                /\ steps'[p] = <<>>
                /\ chainRes'[p] = NoResult
          /\ pc[p] = "chainRet" =>
                /\ steps[p] # <<>>
                /\ steps[p][1] = "fetch"
                /\ chainRes[p].err = NoErr => steps[p] = StepOrder
          /\ pc[p] = "idle" => ENABLED RawCall(p)
          /\ pc[p] = "fetch" => ENABLED FetchIdentityToken(p)
          /\ pc[p] = "stsSend" => ENABLED STSSend(p)
          /\ pc[p] = "stsWait" => ENABLED STSRecv(p)
          /\ pc[p] = "iamSend" => ENABLED IAMSend(p)
          /\ pc[p] = "iamWait" => ENABLED IAMRecv(p)
          /\ pc[p] = "chainRet" => ENABLED RawReturn(p)]_vars

C12_Witness ==
    /\ \A p \in Procs : pc[p] = "iamWait" /\ steps[p] = StepOrder
    /\ mu = NoProc

\* C13: the token of a Token() invocation that succeeded has the
\* accessToken of that invocation's IAM response and, as expiry, the
\* expireTime of that response as time.Parse reads it, and nothing else;
\* the access token, the token type and the expiry (now + expires_in) of
\* the STS response are not in it.
C13_ReturnsIAMToken ==
    \A p \in Procs :
        (pc[p] = "chainRet" /\ chainRes[p].err = NoErr) =>
            LET iam == UnmarshalIAM(observed[p].o.body).v
                sts == UnmarshalSTS(stsSeen[p].body).v
                tok == chainRes[p].tok
            IN  /\ observed[p].api = "iam"
                /\ stsSeen[p].kind = "response"
                /\ ~tok.nil
                /\ tok.AccessToken = iam.AccessToken
                /\ tok.Expiry = ParseRFC3339(iam.ExpireTime).t
                /\ tok.TokenType = ""
                /\ tok.RefreshToken = ""
                /\ tok.AccessToken # sts.AccessToken
                /\ tok.Expiry # now + sts.ExpiresIn

C13_Witness ==
    \E p \in Procs :
        /\ pc[p] = "chainRet"
        /\ stsSeen[p] = Response(200, bodySTSGood)
        /\ observed[p] = [api |-> "iam", o |-> Response(200, bodyIAMLate)]
        /\ chainRes[p] = [tok |-> Token("sa-1", "", "", 40), err |-> NoErr]

\* C14: while a call of ExchangeSTSToken with a non-nil request waits for
\* the endpoint, the one request in flight is a POST whose form has exactly
\* the keys audience, grant_type, requested_token_type, subject_token_type,
\* subject_token and scope; grant_type and requested_token_type are the
\* token-exchange and access-token constants whatever the request holds,
\* scope is the request's scopes separated by single spaces, the other
\* three are the request's fields.  A 2xx answer with a JSON body comes
\* back decoded field for field, with no error.
C14_STSRequestForm ==
    /\ \A p \in Procs :
          pc[p] = "exchangeSTSWait" =>
              LET h == inflight[p]
                  r == xreq[p]
              IN  /\ ~r.nil
                  /\ h.method = "POST"
                  /\ h.contentType = "application/x-www-form-urlencoded"
                  /\ DOMAIN h.form =
                        {"audience", "grant_type", "requested_token_type",
                         "subject_token_type", "subject_token", "scope"}
                  /\ h.form.grant_type =
                        "urn:ietf:params:oauth:grant-type:token-exchange"
                  /\ h.form.requested_token_type =
                        "urn:ietf:params:oauth:token-type:access_token"
                  /\ Len(r.Scope) \in {1, 2}
                  /\ h.form.scope =
                        IF Len(r.Scope) = 1 THEN r.Scope[1]
                        ELSE r.Scope[1] \o " " \o r.Scope[2]
                  /\ h.form.audience = r.Audience
                  /\ h.form.subject_token = r.SubjectToken
                  /\ h.form.subject_token_type = r.SubjectTokenType
    /\ ( /\ xres.fn = "ExchangeSTSToken"
         /\ Is2xx(xres.observed)
         /\ xres.observed.body \in {bodySTSGood, bodyErrorJSON} )
       => /\ xres.err = NoErr
          /\ ~xres.isNil
          /\ xres.sent
          /\ xres.observed.body = bodySTSGood =>
                xres.resp =
                    [AccessToken |-> "Sample.Access.Token",
                     IssuedTokenType |->
                         "urn:ietf:params:oauth:token-type:access_token",
                     TokenType |-> "Bearer",
                     ExpiresIn |-> 3600,
                     Scope |-> "https://www.googleapis.com/auth/cloud-platform",
                     RefreshToken |-> ""]
          /\ xres.observed.body = bodyErrorJSON =>
                xres.resp = NilSTSResponse

C14_Witness ==
    \E p \in Procs :
        /\ pc[p] = "exchangeSTSWait"
        /\ xreq[p] = stsOtherRequest
        /\ inflight[p].form.scope = "scope-a scope-b"
        /\ inflight[p].form.grant_type # xreq[p].GrantType
        /\ xres.fn = "ExchangeSTSToken"
        /\ xres.observed = Response(200, bodySTSGood)
        /\ xres.resp.ExpiresIn = 3600

\* C15: while a call of ExchangeServiceAccountToken with a non-nil request
\* waits for the endpoint, the one request in flight is a POST with a JSON
\* body whose key scope holds the request's scopes and which has the key
\* lifetime exactly when the request's Lifetime is not empty, then with
\* that value, and its Authorization header is "Bearer " followed by the
\* request's STSAccessToken.  A 2xx answer with a JSON body comes back with
\* accessToken and expireTime as they were sent, whether or not expireTime
\* is a time.
C15_IAMRequestBody ==
    /\ \A p \in Procs :
          pc[p] = "exchangeIAMWait" =>
              LET h == inflight[p]
                  r == xreq[p]
              IN  /\ ~r.nil
                  /\ h.method = "POST"
                  /\ h.contentType = "application/json"
                  /\ "scope" \in DOMAIN h.json
                  /\ h.json.scope = r.Scope
                  /\ ("lifetime" \in DOMAIN h.json) <=> (r.Lifetime # "")
                  /\ r.Lifetime # "" => h.json.lifetime = r.Lifetime
                  /\ DOMAIN h.json \subseteq {"scope", "lifetime"}
                  /\ h.authorization = "Bearer " \o r.STSAccessToken
                  /\ r = iamTokenRequest => h.authorization = "Bearer test-token"
    /\ ( /\ xres.fn = "ExchangeServiceAccountToken"
         /\ Is2xx(xres.observed)
         /\ xres.observed.body \in
               {bodyIAMLate, bodyIAMGoString, bodyErrorJSON} )
       => /\ xres.err = NoErr
          /\ ~xres.isNil
          /\ xres.sent
          /\ xres.observed.body = bodyIAMLate =>
                xres.resp = [AccessToken |-> "sa-1",
                             ExpireTime |-> "0001-01-01T00:00:40Z"]
          /\ xres.observed.body = bodyIAMGoString =>
                xres.resp = [AccessToken |-> "sa-4",
                             ExpireTime |-> "0001-01-01 00:00:40 +0000 UTC"]
          /\ xres.observed.body = bodyErrorJSON =>
                xres.resp = NilIAMResponse

C15_Witness ==
    \E p \in Procs :
        /\ pc[p] = "exchangeIAMWait"
        /\ xreq[p] = iamTokenRequest
        /\ DOMAIN inflight[p].json = {"scope"}
        /\ xres.fn = "ExchangeServiceAccountToken"
        /\ xres.req = iamLifetimeRequest
        /\ xres.observed = Response(299, bodyIAMGoString)
        /\ xres.err = NoErr

\* C16: for both exchange calls, a 2xx answer whose body is not JSON gives a
\* DecodeError and no response value; a DecodeError comes from a 2xx answer
\* only, and an answer outside 2xx gives an ExchangeError also when its
\* body is not JSON.
C16_DecodeAfterStatus ==
    (xres.fn # "" /\ xres.observed.kind = "response") =>
        /\ (Is2xx(xres.observed) /\ xres.observed.body = bodyHTML) =>
              /\ xres.err.kind = "DecodeError"
              /\ xres.err.api = IF xres.fn = "ExchangeSTSToken"
                                THEN "sts/google" ELSE "iamCredentials/google"
              /\ xres.isNil
              /\ xres.resp \in {NilSTSResponse, NilIAMResponse}
        /\ xres.err.kind = "DecodeError" =>
              /\ Is2xx(xres.observed)
              /\ xres.observed.body = bodyHTML
        /\ (~Is2xx(xres.observed) /\ xres.observed.body = bodyHTML) =>
              /\ xres.err.kind = "ExchangeError"
              /\ xres.err.body = bodyHTML

C16_Witness ==
    /\ xres.fn = "ExchangeSTSToken"
    /\ xres.observed = Response(299, bodyHTML)
    /\ xres.err.kind = "DecodeError"
    /\ xres.isNil

\* The STS answer is a 2xx whose body decodes with expires_in equal to 0.
ZeroExpiresIn(o) ==
    /\ Is2xx(o)
    /\ UnmarshalSTS(o.body).ok
    /\ UnmarshalSTS(o.body).v.ExpiresIn = 0
    /\ o.body = bodySTSZero

\* The step in which obtainSTSToken of p takes an answer with expires_in 0:
\* it is not rejected, the STS token expires at once (expiry = now) and the
\* chain goes on to the IAM exchange.
ZeroExpiresInAccepted(p) ==
    (pc[p] = "stsWait" /\ pc'[p] # "stsWait" /\ ZeroExpiresIn(stsSeen'[p])) =>
        /\ pc'[p] = "iamSend"
        /\ failedStep'[p] = ""
        /\ stsToken'[p] = Token("sts-0", "", "", now)
        /\ stsToken'[p].Expiry = now

\* C17 as stated: an STS answer with expires_in 0 is accepted as above, and
\* when the chain that got it succeeds, the token the wrapped source takes
\* into its cache is already expired.
C17_CachesExpiredToken ==
    [][\A p \in Procs :
          /\ ZeroExpiresInAccepted(p)
          /\ ( /\ pc[p] = "chainRet" /\ pc'[p] = "idle"
               /\ ZeroExpiresIn(stsSeen[p])
               /\ chainRes[p].err = NoErr )
             => /\ ~t'.nil
                /\ t'.Expiry <= now]_vars

\* C17 as amended: an STS answer with expires_in 0 is accepted as above and
\* its access token is the bearer of the IAM request; the STS token itself
\* is never cached: when the chain succeeds the cache takes the IAM token,
\* whose expiry is the expireTime of the IAM answer whatever expires_in
\* was.
C17_ZeroExpiresInNotCached ==
    [][\A p \in Procs :
          /\ ZeroExpiresInAccepted(p)
          /\ (pc[p] = "iamWait" /\ ZeroExpiresIn(stsSeen[p])) =>
                inflight[p].authorization = "Bearer sts-0"
          /\ ( /\ pc[p] = "chainRet" /\ pc'[p] = "idle"
               /\ ZeroExpiresIn(stsSeen[p])
               /\ chainRes[p].err = NoErr )
             => /\ t' = chainRes[p].tok
                /\ t'.AccessToken =
                      UnmarshalIAM(observed[p].o.body).v.AccessToken
                /\ t'.Expiry =
                      ParseRFC3339(
                          UnmarshalIAM(observed[p].o.body).v.ExpireTime).t
          /\ t'.AccessToken # "sts-0"]_vars

C17_Witness ==
    \E p \in Procs :
        /\ pc[p] = "chainRet"
        /\ mu = p
        /\ ZeroExpiresIn(stsSeen[p])
        /\ chainRes[p].err = NoErr
        /\ chainRes[p].tok.AccessToken = "sa-1"
        /\ chainRes[p].tok.Expiry > now + expiryDelta

\* The position of a source in the order of the claim.
SourceIndex(src) == CHOOSE i \in 1..Len(SourceOrder) : SourceOrder[i] = src
ExplicitSources ==
    {"credentialsJson", "GOOGLE_CREDENTIALS", "GOOGLE_CLOUD_KEYFILE_JSON",
     "~/.gcp/credentials"}
\* The JSON text a source holds in a call with the surroundings in ("" when
\* it holds none).
SourceContent(src, in) ==
    CASE src = "credentialsJson" -> in.credsJson
      [] src = "GOOGLE_CREDENTIALS" -> in.GOOGLE_CREDENTIALS
      [] src = "GOOGLE_CLOUD_KEYFILE_JSON" -> in.GOOGLE_CLOUD_KEYFILE_JSON
      [] src = "~/.gcp/credentials" ->
           IF in.homeErr \/ in.file = NoFile THEN "" ELSE in.file
      [] src = "ADC" -> IF in.adc.kind = "json" THEN in.adc.json ELSE ""
\* The email in the credentials each source holds when its JSON is good.
SourceEmail(src) ==
    CASE src = "credentialsJson" -> "arg"
      [] src = "GOOGLE_CREDENTIALS" -> "env1"
      [] src = "GOOGLE_CLOUD_KEYFILE_JSON" -> "env2"
      [] src = "~/.gcp/credentials" -> "file"
      [] src = "ADC" -> "adc"
\* The sources of the sequence seq that hold JSON text, in their order.
NonEmptyOf(seq, in) ==
    SelectSeq(seq, LAMBDA src : SourceContent(src, in) # "")

\* What the two statements of C18 share: the sources are looked at in the
\* fixed order, beginning with the argument, and a later one is looked at
\* only when none of the earlier ones has given credentials that could be
\* used (each earlier one was empty, or failed to parse, or was not looked
\* at).
SourcesInOrder ==
    found.called =>
        LET c == found.out.consulted
            in == found.in
        IN  /\ c # <<>>
            /\ c[1] = "credentialsJson"
            /\ \A i, j \in 1..Len(c) :
                  i < j =>
                      /\ SourceIndex(c[i]) < SourceIndex(c[j])
                      /\ SourceContent(c[i], in) \in {"", badJSON}
            /\ \A j \in 1..Len(c) :
                  c[j] \in ExplicitSources =>
                      \A i \in 1..(SourceIndex(c[j]) - 1) :
                          /\ \E k \in 1..Len(c) : c[k] = SourceOrder[i]
                          /\ SourceContent(SourceOrder[i], in) = ""

\* C18 as stated: the sources are tried in the fixed order, a later one
\* only when the earlier ones gave nothing usable, and the first non-empty
\* JSON found is the only JSON that is parsed.
C18_OnlyFirstJSONParsed ==
    /\ SourcesInOrder
    /\ found.called =>
          LET ne == NonEmptyOf(found.out.consulted, found.in)
          IN  found.out.parsed = IF ne = <<>> THEN <<>> ELSE <<ne[1]>>

\* C18 as amended: the same order and the same condition for looking at a
\* later source; of the four explicit sources only the first one found
\* non-empty is parsed, and its credentials are returned when it parses;
\* when Application Default Credentials are reached and carry JSON, that
\* JSON is parsed too, also after an explicit JSON that failed to parse.
C18_FirstExplicitJSONParsed ==
    /\ SourcesInOrder
    /\ found.called =>
          LET in == found.in
              out == found.out
              ne == NonEmptyOf(out.consulted, in)
              explicit == SelectSeq(out.parsed,
                                    LAMBDA src : src \in ExplicitSources)
              adc == SelectSeq(out.parsed, LAMBDA src : src = "ADC")
          IN  /\ out.parsed = explicit \o adc
              /\ explicit =
                    IF ne # <<>> /\ ne[1] \in ExplicitSources
                    THEN <<ne[1]>> ELSE <<>>
              /\ adc = IF /\ out.consulted[Len(out.consulted)] = "ADC"
                          /\ in.adc.kind = "json"
                       THEN <<"ADC">> ELSE <<>>
              /\ out.tokenSource = "jwt" =>
                    /\ explicit # <<>>
                    /\ out.creds = GcpCredentials(SourceEmail(explicit[1]))
                    /\ out.parsed = explicit
                    /\ out.err = ""

C18_Witness ==
    /\ found.called
    /\ found.in.credsJson = badJSON
    /\ found.in.GOOGLE_CREDENTIALS = GoodJSON("env1")
    /\ found.out.consulted = <<"credentialsJson", "ADC">>
    /\ found.out.parsed = <<"credentialsJson", "ADC">>
    /\ found.out.creds = GcpCredentials("adc")
    /\ found.out.tokenSource = "adc"

\* C19: whatever the other invocations of tokenSource.Token() do at the
\* same time, the subject token an invocation has sent to STS is the
\* identity token its own fetcher call returned, the bearer it has sent to
\* IAM is the access token of its own STS answer, and the token it returns
\* is made of its own IAM answer.
C19_NoCrossing ==
    \A p \in Procs :
        /\ pc[p] = "stsWait" =>
              /\ pluginToken[p] \in {r.token : r \in {x \in FetcherResults : ~x.failed}}
              /\ inflight[p].form.subject_token = pluginToken[p]
        /\ pc[p] = "iamWait" =>
              /\ Is2xx(stsSeen[p])
              /\ inflight[p].authorization =
                    "Bearer " \o UnmarshalSTS(stsSeen[p].body).v.AccessToken
        /\ (pc[p] = "chainRet" /\ chainRes[p].err = NoErr) =>
              /\ observed[p].api = "iam"
              /\ chainRes[p].tok =
                    Token(UnmarshalIAM(observed[p].o.body).v.AccessToken, "", "",
                          ParseRFC3339(
                              UnmarshalIAM(observed[p].o.body).v.ExpireTime).t)

C19_Witness ==
    \E p, q \in Procs :
        /\ p # q
        /\ pc[p] = "iamWait"
        /\ pc[q] = "iamWait"
        /\ inflight[p].authorization = "Bearer Sample.Access.Token"
        /\ inflight[q].authorization = "Bearer sts-0"

\* C20: when the fetcher returns and every HTTP call ends, every Token()
\* invocation that was started returns, with a token or with an error and
\* never with both or neither; on the way it starts no step twice.
C20_TokenReturns ==
    /\ [](\A p \in Procs : IsPrefix(steps[p], StepOrder))
    /\ \A p \in Procs :
          (pc[p] = "fetch") ~>
              ( /\ pc[p] = "chainRet"
                /\ (chainRes[p].err # NoErr) # (~chainRes[p].tok.nil) )

C20_Witness ==
    \E p, q \in Procs :
        /\ p # q
        /\ pc[p] = "chainRet"
        /\ chainRes[p].err = NoErr
        /\ ~chainRes[p].tok.nil
        /\ pc[q] = "chainRet"
        /\ chainRes[q].err.kind = "TransportError"
        /\ failedStep[q] = "iam"

\* C21: whatever the TTL of the configuration, the STS request a Token()
\* invocation has in flight is made of the audience, the identity token
\* and the constants, and its IAM request has the default cloud-platform
\* scope as its only JSON key, no lifetime, and the STS access token as
\* bearer: neither depends on the TTL, so configurations that differ in
\* the TTL only send the same requests; and no step changes the
\* configuration.
C21_TTLNoEffect ==
    [][/\ ttl' = ttl
       /\ \A p \in Procs :
             /\ pc[p] = "stsWait" =>
                   inflight[p] =
                       [method |-> "POST",
                        endpoint |-> "https://sts.googleapis.com/v1/token",
                        contentType |-> "application/x-www-form-urlencoded",
                        authorization |-> "",
                        form |->
                            [audience |-> "test-audience",
                             grant_type |->
                                 "urn:ietf:params:oauth:grant-type:token-exchange",
                             requested_token_type |->
                                 "urn:ietf:params:oauth:token-type:access_token",
                             subject_token_type |->
                                 "urn:ietf:params:oauth:token-type:jwt",
                             subject_token |-> pluginToken[p],
                             scope |->
                                 "https://www.googleapis.com/auth/cloud-platform"]]
             /\ pc[p] = "iamWait" =>
                   /\ DOMAIN inflight[p].json = {"scope"}
                   /\ inflight[p] =
                         [method |-> "POST",
                          endpoint |->
                              "https://iamcredentials.googleapis.com/v1/projects/-/serviceAccounts/sa@project.iam.gserviceaccount.com:generateAccessToken",
                          contentType |-> "application/json",
                          authorization |->
                              "Bearer " \o UnmarshalSTS(stsSeen[p].body).v.AccessToken,
                          json |->
                              [scope |->
                                  <<"https://www.googleapis.com/auth/cloud-platform">>]]]_vars

C21_Witness ==
    \E p \in Procs :
        /\ ttl = 2 * 3600
        /\ pc[p] = "iamWait"
        /\ DOMAIN inflight[p].json = {"scope"}
        /\ inflight[p].authorization = "Bearer Sample.Access.Token"

\* The first of the four explicit sources that holds text, as FindCredentials
\* meets them: "" when none does, and whether it gets as far as the home
\* directory.
ExplicitEmptyBeforeFile(in) ==
    /\ in.credsJson = ""
    /\ in.GOOGLE_CREDENTIALS = ""
    /\ in.GOOGLE_CLOUD_KEYFILE_JSON = ""
FirstExplicitJSON(in) ==
    IF in.credsJson # "" THEN in.credsJson
    ELSE IF in.GOOGLE_CREDENTIALS # "" THEN in.GOOGLE_CREDENTIALS
    ELSE IF in.GOOGLE_CLOUD_KEYFILE_JSON # "" THEN in.GOOGLE_CLOUD_KEYFILE_JSON
    ELSE IF in.homeErr \/ in.file = NoFile THEN ""
    ELSE in.file

\* C22: when the credentials JSON FindCredentials has found does not parse,
\* the call gives no error for that: it goes on to Application Default
\* Credentials and returns what they give (their error, their token source
\* without credentials, their credentials, or the error for their JSON).
\* When the home directory cannot be determined, which is asked for only
\* when the argument and both environment variables are empty, the call
\* returns "could not find home directory" at once and Application Default
\* Credentials are not tried.
C22_ParseFailureFallsThrough ==
    found.called =>
        LET in == found.in
            out == found.out
        IN  /\ ( /\ FirstExplicitJSON(in) = badJSON
                 /\ ~(ExplicitEmptyBeforeFile(in) /\ in.homeErr) )
               => /\ out.consulted[Len(out.consulted)] = "ADC"
                  /\ out.err # "could not parse credentials"
                  /\ in.adc.kind = "error" =>
                        /\ out.err = "FindDefaultCredentials"
                        /\ out.creds = NilCredentials
                        /\ out.tokenSource = "nil"
                  /\ in.adc.kind = "nojson" =>
                        /\ out.err = ""
                        /\ out.creds = NilCredentials
                        /\ out.tokenSource = "adc"
                  /\ (in.adc.kind = "json" /\ in.adc.json # badJSON) =>
                        /\ out.err = ""
                        /\ out.creds = GcpCredentials("adc")
                        /\ out.tokenSource = "adc"
                  /\ (in.adc.kind = "json" /\ in.adc.json = badJSON) =>
                        /\ out.err =
                              "could not read credentials from application default credential JSON"
                        /\ out.creds = NilCredentials
                        /\ out.tokenSource = "nil"
            /\ (ExplicitEmptyBeforeFile(in) /\ in.homeErr) =>
                  /\ out.err = "could not find home directory"
                  /\ out.creds = NilCredentials
                  /\ out.tokenSource = "nil"
                  /\ \A i \in 1..Len(out.consulted) : out.consulted[i] # "ADC"
                  /\ out.parsed = <<>>
            /\ out.err = "could not find home directory" =>
                  /\ ExplicitEmptyBeforeFile(in)
                  /\ in.homeErr

C22_Witness ==
    /\ found.called
    /\ found.in.credsJson = ""
    /\ found.in.GOOGLE_CREDENTIALS = badJSON
    /\ found.in.GOOGLE_CLOUD_KEYFILE_JSON # ""
    /\ found.in.homeErr
    /\ found.in.adc.kind = "nojson"
    /\ found.out.err = ""
    /\ found.out.tokenSource = "adc"
    /\ found.out.consulted =
          <<"credentialsJson", "GOOGLE_CREDENTIALS", "ADC">>

====
